---- MODULE Spec2Model ----
(***************************************************************************)
(* Model of mega_file_manager.py (MegaFileManager): the recursive tree     *)
(* walk, the analyzer, the PDF deletion and the sequential rename passes,  *)
(* and the gated run() flow.                                               *)
(*                                                                         *)
(* File names are sequences of one-character strings so that suffix,       *)
(* lower-casing, endswith, sorting and formatting are computed as the      *)
(* Python code computes them.  Names never contain a path separator.       *)
(***************************************************************************)
EXTENDS Integers, Sequences, FiniteSets, TLC

(* ------------------------------ bounds -------------------------------- *)
\* number of file nodes in the listing used by run()
MaxFiles == 3
\* number of nodes besides the root in the listings of the tree-walk spec
WalkNodes == 2

(* --------------------------- string helpers --------------------------- *)
\* code points of the characters that occur in file names (str comparison)
Ord(c) ==
  CASE c = " " -> 32 [] c = "." -> 46
    [] c = "0" -> 48 [] c = "1" -> 49 [] c = "2" -> 50 [] c = "3" -> 51
    [] c = "4" -> 52 [] c = "5" -> 53 [] c = "6" -> 54 [] c = "7" -> 55
    [] c = "8" -> 56 [] c = "9" -> 57
    [] c = "A" -> 65 [] c = "D" -> 68 [] c = "F" -> 70 [] c = "P" -> 80
    [] c = "T" -> 84 [] c = "X" -> 88 [] c = "_" -> 95
    [] c = "a" -> 97 [] c = "b" -> 98 [] c = "c" -> 99 [] c = "d" -> 100
    [] c = "f" -> 102 [] c = "k" -> 107 [] c = "n" -> 110 [] c = "o" -> 111
    [] c = "p" -> 112 [] c = "t" -> 116 [] c = "u" -> 117 [] c = "w" -> 119
    [] c = "x" -> 120

\* str.lower() on one character
LowerChar(c) ==
  CASE c = "A" -> "a" [] c = "D" -> "d" [] c = "F" -> "f" [] c = "P" -> "p"
    [] c = "T" -> "t" [] c = "X" -> "x" [] c = "Y" -> "y" [] OTHER -> c

\* str.lower()
Lower(s) == [i \in 1..Len(s) |-> LowerChar(s[i])]

\* str.endswith(suf)
EndsWith(s, suf) ==
  /\ Len(suf) <= Len(s)
  /\ SubSeq(s, Len(s) - Len(suf) + 1, Len(s)) = suf

\* sub in s (substring test)
Contains(s, sub) ==
  \E i \in 0..(Len(s) - Len(sub)) : SubSeq(s, i + 1, i + Len(sub)) = sub

\* str.strip(): drops leading and trailing blanks
Strip(s) ==
  LET nb == {i \in 1..Len(s) : s[i] # " "}
  IN  IF nb = {} THEN <<>>
      ELSE LET lo == CHOOSE i \in nb : \A j \in nb : i <= j
               hi == CHOOSE i \in nb : \A j \in nb : j <= i
           IN  SubSeq(s, lo, hi)

\* str.rfind('.') as a 1-based position, 0 when there is no dot
RFindDot(s) ==
  LET ds == {i \in 1..Len(s) : s[i] = "."}
  IN  IF ds = {} THEN 0 ELSE CHOOSE i \in ds : \A j \in ds : j <= i

\* pathlib.Path(name).suffix: the text from the last dot on, unless that dot
\* is the first or the last character of the name
Suffix(s) ==
  LET i == RFindDot(s)
  IN  IF 1 < i /\ i < Len(s) THEN SubSeq(s, i, Len(s)) ELSE <<>>

\* a < b for Python str (code point lexicographic order)
RECURSIVE StrLess(_, _)
StrLess(a, b) ==
  IF b = <<>> THEN FALSE
  ELSE IF a = <<>> THEN TRUE
  ELSE IF Ord(a[1]) # Ord(b[1]) THEN Ord(a[1]) < Ord(b[1])
  ELSE StrLess(Tail(a), Tail(b))

Digit(d) == <<"0", "1", "2", "3", "4", "5", "6", "7", "8", "9">>[d + 1]

\* str(n) for n >= 0
RECURSIVE Str(_)
Str(n) == IF n < 10 THEN <<Digit(n)>> ELSE Str(n \div 10) \o <<Digit(n % 10)>>

\* format(idx, "03d"): zero-padded to at least three digits
Pad3(idx) ==
  LET d == Str(idx)
  IN  IF Len(d) >= 3 THEN d ELSE [i \in 1..(3 - Len(d)) |-> "0"] \o d

DOT_PDF == <<".", "p", "d", "f">>
UNKNOWN == <<"u", "n", "k", "n", "o", "w", "n">>

(* ------------------------------ inputs -------------------------------- *)
A_TXT == <<"a", ".", "t", "x", "t">>
B_TXT == <<"b", ".", "t", "x", "t">>
A_TXT_UP == <<"A", ".", "T", "X", "T">>
X_PDF == <<"x", ".", "p", "d", "f">>
X_PDF_UP == <<"X", ".", "P", "D", "F">>
DOC == <<"d", "o", "c">>
YES == <<"y">>

\* attribute dicts a file node may carry: <<>> when it has no 'n' key,
\* <<name>> else.  Each file node draws from a few names so that listings
\* with name ties, several PDFs, upper-case extensions, a dot-file and a
\* nameless node all occur.
FileAttrs(i) ==
  CASE i = 1 -> {<<B_TXT>>, <<A_TXT_UP>>, <<>>}
    [] i = 2 -> {<<A_TXT>>, <<B_TXT>>, <<X_PDF_UP>>}
    [] i = 3 -> {<<X_PDF>>, <<DOT_PDF>>, <<A_TXT>>}
    [] OTHER -> {<<A_TXT>>, <<X_PDF>>}
\* answers typed at a y/n prompt
Answers == {<<"y">>, <<"Y">>, <<"n">>}
\* raw text typed at the custom-name prompt
RawNames == {DOC, <<" ">> \o DOC, <<>>, <<" ">>}
\* raw text typed at the folder prompt
FolderPaths == {<<"d", "o", "c", "s">>, <<"o", "c">>, <<"z">>}

\* node ids: the cloud root (never listed), two folders, the file nodes
CloudRoot == 100
FolderF == 101
FolderS == 102
FileIds == 1..MaxFiles
NoFolder == 0
EMAIL == "user"

(* ------------------------------- state -------------------------------- *)
VARIABLES
  pc,              \* position of run()
  files,           \* remote listing: node id -> [p, t, n]   (get_files())
  order,           \* iteration order of the listing dict
  sessions,        \* self.sessions (accounts saved in the session store)
  mega_instance,   \* TRUE once login() has set self.mega_instance
  folder,          \* id of the folder found by find_folder, or NoFolder
  stats,           \* result of analyze_folder
  custom_name,     \* stripped custom name
  dry_run_choice,  \* lower-cased answers to the three confirmations
  proceed,
  final_confirm,
  deleted,         \* return value of the live delete_pdfs call
  renamed,         \* return value of the last rename_files call
  backup_data,     \* backup_data['files'] built by the last rename_files
  calls,           \* remote mutation calls issued: [op, id, name, ok]
  log,             \* per-item logger lines: [ev, id]
  backups,         \* backup files written so far
  summary,         \* figures of the final summary / 'Operation complete'
  stack,           \* call stack of traverse(): frames [parent, i]
  all_files,       \* all_files list being built by traverse()
  wpc              \* position of get_all_files_recursive in the walk spec

vars == <<pc, files, order, sessions, mega_instance, folder, stats,
          custom_name, dry_run_choice, proceed, final_confirm, deleted,
          renamed, backup_data, calls, log, backups, summary, stack,
          all_files, wpc>>

runVars == <<pc, sessions, mega_instance, stats, custom_name,
             dry_run_choice, proceed, final_confirm, deleted, renamed,
             backup_data, calls, log, backups, summary>>
walkVars == <<stack, all_files, wpc>>

(* --------------------------- tree walker ------------------------------ *)
\* the 'name' of a collected file: a['n'] when present, else 'unknown'
NodeName(d) == IF Len(d.n) > 0 THEN d.n[1] ELSE UNKNOWN

FileRecord(id, d) == [id |-> id, name |-> NodeName(d)]

\* traverse(parent_id), from position i of the listing iteration on
RECURSIVE traverse(_, _, _, _)
traverse(fs, ord, parent_id, i) ==
  IF i > Len(ord) THEN <<>>
  ELSE LET file_id == ord[i]
           file_data == fs[file_id]
           here == IF file_data.p = parent_id
                   THEN IF file_data.t = 0 THEN <<FileRecord(file_id, file_data)>>
                        ELSE IF file_data.t = 1 THEN traverse(fs, ord, file_id, 1)
                        ELSE <<>>
                   ELSE <<>>
       IN  here \o traverse(fs, ord, parent_id, i + 1)

get_all_files_recursive(fs, ord, folder_id) == traverse(fs, ord, folder_id, 1)

(* ---------------------------- analyzer -------------------------------- *)
IsPdfSuffix(f) == Lower(Suffix(f.name)) = DOT_PDF

analyze_folder(fs, ord, folder_id) ==
  LET all == get_all_files_recursive(fs, ord, folder_id)
      exts == {Lower(Suffix(all[i].name)) : i \in 1..Len(all)}
  IN  [total_files |-> Len(all),
       pdf_files   |-> Cardinality({i \in 1..Len(all) : IsPdfSuffix(all[i])}),
       other_files |-> Cardinality({i \in 1..Len(all) : ~IsPdfSuffix(all[i])}),
       file_types  |-> [e \in exts |->
                          Cardinality({i \in 1..Len(all) :
                                         Lower(Suffix(all[i].name)) = e})]]

(* ----------------------------- deletion ------------------------------- *)
\* the filter of delete_pdfs and rename_files
IsPdfName(f) == EndsWith(Lower(f.name), DOT_PDF)

\* the listing after destroy(id)
Destroy(st, id) ==
  [st EXCEPT !.files = [k \in (DOMAIN st.files) \ {id} |-> st.files[k]],
             !.order = SelectSeq(st.order, LAMBDA k : k # id)]

\* variant: the dry_run flag is not consulted, the remote call is always made
DeleteItem_IgnoringDryRun(st, pdf_file, dry_run, fails) ==
  LET called == [st EXCEPT !.calls = Append(@,
                   [op |-> "destroy", id |-> pdf_file.id, name |-> <<>>,
                    ok |-> pdf_file.id \notin fails])]
  IN  IF pdf_file.id \in fails
      THEN [called EXCEPT !.log = Append(@, [ev |-> "error_deleting", id |-> pdf_file.id])]
      ELSE [Destroy(called, pdf_file.id) EXCEPT
              !.log = Append(@, [ev |-> "deleted", id |-> pdf_file.id]),
              !.count = @ + 1]

\* variant: deleted_count is incremented before the remote call
DeleteItem_CountingFailures(st, pdf_file, dry_run, fails) ==
  IF ~dry_run
  THEN LET called == [st EXCEPT !.calls = Append(@,
                        [op |-> "destroy", id |-> pdf_file.id, name |-> <<>>,
                         ok |-> pdf_file.id \notin fails]),
                                !.count = @ + 1]
       IN  IF pdf_file.id \in fails
           THEN [called EXCEPT !.log = Append(@, [ev |-> "error_deleting", id |-> pdf_file.id])]
           ELSE [Destroy(called, pdf_file.id) EXCEPT
                   !.log = Append(@, [ev |-> "deleted", id |-> pdf_file.id])]
  ELSE [st EXCEPT !.log = Append(@, [ev |-> "would_delete", id |-> pdf_file.id]),
                  !.count = @ + 1]

\* one iteration of the deletion loop; fails = ids whose remote call raises
DeleteItem(st, pdf_file, dry_run, fails) ==
  IF ~dry_run
  THEN LET called == [st EXCEPT !.calls = Append(@,
                        [op |-> "destroy", id |-> pdf_file.id, name |-> <<>>,
                         ok |-> pdf_file.id \notin fails])]
       IN  IF pdf_file.id \in fails
           THEN [called EXCEPT !.log = Append(@, [ev |-> "error_deleting", id |-> pdf_file.id])]
           ELSE [Destroy(called, pdf_file.id) EXCEPT
                   !.log = Append(@, [ev |-> "deleted", id |-> pdf_file.id]),
                   !.count = @ + 1]
  ELSE [st EXCEPT !.log = Append(@, [ev |-> "would_delete", id |-> pdf_file.id]),
                  !.count = @ + 1]

RECURSIVE DeleteLoop(_, _, _, _, _)
DeleteLoop(st, pdf_files, i, dry_run, fails) ==
  IF i > Len(pdf_files) THEN st
  ELSE DeleteLoop(DeleteItem(st, pdf_files[i], dry_run, fails),
                  pdf_files, i + 1, dry_run, fails)

PdfFiles(all) == SelectSeq(all, IsPdfName)

\* st carries files, order, calls, log; the result adds count
delete_pdfs(st, folder_id, dry_run, fails) ==
  LET all == get_all_files_recursive(st.files, st.order, folder_id)
      pdf_files == PdfFiles(all)
      st0 == [files |-> st.files, order |-> st.order, calls |-> st.calls,
              log |-> st.log, count |-> 0]
  IN  IF pdf_files = <<>> THEN st0
      ELSE DeleteLoop(st0, pdf_files, 1, dry_run, fails)

(* ------------------------------ rename -------------------------------- *)
\* list.sort(key=name) is stable: x goes after every element whose name is
\* not greater than its own
RECURSIVE InsertByName(_, _)
InsertByName(sorted, x) ==
  IF sorted = <<>> THEN <<x>>
  ELSE IF StrLess(x.name, sorted[1].name) THEN <<x>> \o sorted
  ELSE <<sorted[1]>> \o InsertByName(Tail(sorted), x)

RECURSIVE SortByName(_)
SortByName(fs) ==
  IF fs = <<>> THEN <<>>
  ELSE InsertByName(SortByName(SubSeq(fs, 1, Len(fs) - 1)), fs[Len(fs)])

\* variant: the index is not zero-padded
NewName_Unpadded(cname, idx, original_name) ==
  cname \o <<"_">> \o Str(idx) \o Suffix(original_name)

\* f"{custom_name}_{idx:03d}{extension}"
NewName(cname, idx, original_name) ==
  cname \o <<"_">> \o Pad3(idx) \o Suffix(original_name)

\* variant: PDFs are not excluded from the files to rename
FilesToRename_All(all) == all

FilesToRename(all) == SelectSeq(all, LAMBDA f : ~IsPdfName(f))

\* the listing after rename(id, new_name)
Rename(st, id, new_name) ==
  [st EXCEPT !.files = [@ EXCEPT ![id] = [@ EXCEPT !.n = <<new_name>>]]]

\* variant: the backup entry is appended after the remote call returned
RenameItem_BackupAfterCall(st, file_info, idx, cname, dry_run, fails) ==
  LET original_name == file_info.name
      new_name == NewName(cname, idx, original_name)
      entry == [file_id |-> file_info.id, original_name |-> original_name,
                new_name |-> new_name]
  IN  IF ~dry_run
      THEN LET called == [st EXCEPT !.calls = Append(@,
                            [op |-> "rename", id |-> file_info.id,
                             name |-> new_name, ok |-> file_info.id \notin fails])]
           IN  IF file_info.id \in fails
               THEN [called EXCEPT !.log = Append(@, [ev |-> "error_renaming", id |-> file_info.id])]
               ELSE [Rename(called, file_info.id, new_name) EXCEPT
                       !.backup = Append(@, entry),
                       !.log = Append(@, [ev |-> "renamed", id |-> file_info.id]),
                       !.count = @ + 1]
      ELSE [st EXCEPT !.backup = Append(@, entry),
                      !.log = Append(@, [ev |-> "would_rename", id |-> file_info.id]),
                      !.count = @ + 1]

\* one iteration of the rename loop; fails = ids whose remote call raises
RenameItem(st, file_info, idx, cname, dry_run, fails) ==
  LET original_name == file_info.name
      new_name == NewName(cname, idx, original_name)
      planned == [st EXCEPT !.backup = Append(@,
                    [file_id |-> file_info.id, original_name |-> original_name,
                     new_name |-> new_name])]
  IN  IF ~dry_run
      THEN LET called == [planned EXCEPT !.calls = Append(@,
                            [op |-> "rename", id |-> file_info.id,
                             name |-> new_name, ok |-> file_info.id \notin fails])]
           IN  IF file_info.id \in fails
               THEN [called EXCEPT !.log = Append(@, [ev |-> "error_renaming", id |-> file_info.id])]
               ELSE [Rename(called, file_info.id, new_name) EXCEPT
                       !.log = Append(@, [ev |-> "renamed", id |-> file_info.id]),
                       !.count = @ + 1]
      ELSE [planned EXCEPT !.log = Append(@, [ev |-> "would_rename", id |-> file_info.id]),
                           !.count = @ + 1]

RECURSIVE RenameLoop(_, _, _, _, _, _)
RenameLoop(st, fs, idx, cname, dry_run, fails) ==
  IF idx > Len(fs) THEN st
  ELSE RenameLoop(RenameItem(st, fs[idx], idx, cname, dry_run, fails),
                  fs, idx + 1, cname, dry_run, fails)

\* the backup is written after a live pass with at least one success;
\* write_ok = FALSE models open()/json.dump raising (logged, ignored)
SaveBackup(st, cname, dry_run, write_ok) ==
  IF ~dry_run /\ st.count > 0 /\ write_ok
  THEN [st EXCEPT !.backups = Append(@, [custom_name |-> cname, files |-> st.backup])]
  ELSE st

\* st carries files, order, calls, log, backups; the result adds count and
\* backup (the 'files' list of backup_data)
rename_files(st, folder_id, cname, dry_run, fails, write_ok) ==
  LET all == get_all_files_recursive(st.files, st.order, folder_id)
      files_to_rename == FilesToRename(all)
      st0 == [files |-> st.files, order |-> st.order, calls |-> st.calls,
              log |-> st.log, backups |-> st.backups, count |-> 0,
              backup |-> <<>>]
  IN  IF files_to_rename = <<>> THEN st0
      ELSE SaveBackup(RenameLoop(st0, SortByName(files_to_rename), 1, cname,
                                 dry_run, fails),
                      cname, dry_run, write_ok)

(* --------------------------- folder locator --------------------------- *)
HasName(d) == Len(d.n) > 0

\* first folder, in iteration order, whose name equals folder_path; failing
\* that, first folder whose name contains it and that the user confirms
find_folder(fs, ord, folder_path, confirmed) ==
  LET exact == {i \in 1..Len(ord) :
                  /\ HasName(fs[ord[i]])
                  /\ fs[ord[i]].n[1] = folder_path
                  /\ fs[ord[i]].t = 1}
      fuzzy == {i \in 1..Len(ord) :
                  /\ HasName(fs[ord[i]])
                  /\ Contains(fs[ord[i]].n[1], folder_path)
                  /\ fs[ord[i]].t = 1
                  /\ ord[i] \in confirmed}
      First(S) == ord[CHOOSE i \in S : \A j \in S : i <= j]
  IN  IF exact # {} THEN First(exact)
      ELSE IF fuzzy # {} THEN First(fuzzy)
      ELSE NoFolder

(* ------------------------------- run() -------------------------------- *)
DOCS == <<"d", "o", "c", "s">>
DOCS2 == <<"d", "o", "c", "s", "2">>
UNSET == <<>>
UNBOUND == -1

AllIds == <<FolderF, FolderS>> \o [i \in 1..MaxFiles |-> i]
Reverse(s) == [i \in 1..Len(s) |-> s[Len(s) + 1 - i]]
\* iteration orders of the listing that are explored
Orders == {AllIds, Reverse(AllIds)}

\* folders a file node may lie in
FileParents(i) == IF i <= 2 THEN {FolderF, FolderS} ELSE {FolderF}

\* listings of a well-formed account: a folder, a sub-folder in it, and
\* file nodes in either folder
Listings ==
  {[id \in {FolderF, FolderS} \cup FileIds |->
      IF id = FolderF THEN [p |-> CloudRoot, t |-> 1, n |-> <<DOCS>>]
      ELSE IF id = FolderS THEN [p |-> FolderF, t |-> 1, n |-> <<DOCS2>>]
      ELSE [p |-> fp[id], t |-> 0, n |-> fa[id]]] :
     fp \in {f \in [FileIds -> {FolderF, FolderS}] :
               \A i \in FileIds : f[i] \in FileParents(i)},
     fa \in {f \in [FileIds -> UNION {FileAttrs(i) : i \in FileIds}] :
               \A i \in FileIds : f[i] \in FileAttrs(i)}}

EmptyStats == [total_files |-> 0, pdf_files |-> 0, other_files |-> 0,
               file_types |-> [e \in {} |-> 0]]

Init ==
  /\ pc = "select"
  /\ files \in Listings
  /\ order \in Orders
  /\ sessions \in {{}, {EMAIL}}
  /\ mega_instance = FALSE
  /\ folder = NoFolder
  /\ stats = EmptyStats
  /\ custom_name = UNSET
  /\ dry_run_choice = UNSET
  /\ proceed = UNSET
  /\ final_confirm = UNSET
  /\ deleted = UNBOUND
  /\ renamed = UNBOUND
  /\ backup_data = <<>>
  /\ calls = <<>>
  /\ log = <<>>
  /\ backups = <<>>
  /\ summary = [deleted |-> UNBOUND, renamed |-> UNBOUND]
  /\ stack = <<>>
  /\ all_files = <<>>
  /\ wpc = "idle"

\* select_or_add_account: option 0 exits; a saved account is used once its
\* confirmation is answered 'y'; otherwise a new account is entered
SelectAccount ==
  /\ pc = "select"
  /\ \E choice \in {"exit", "saved", "new"}, confirm \in Answers :
       \/ /\ choice = "exit" /\ sessions # {}
          /\ pc' = "exit"
       \/ /\ choice = "saved" /\ sessions # {}
          /\ pc' = IF Lower(confirm) = YES THEN "login" ELSE "select"
       \/ /\ choice = "new"
          /\ pc' = "login"
  /\ UNCHANGED <<files, order, sessions, mega_instance, folder, stats,
                 custom_name, dry_run_choice, proceed, final_confirm, deleted,
                 renamed, backup_data, calls, log, backups, summary>>
  /\ UNCHANGED walkVars

\* login(): on success the session is saved; on failure run() returns
Login ==
  /\ pc = "login"
  /\ \E ok \in BOOLEAN :
       IF ok
       THEN /\ mega_instance' = TRUE
            /\ sessions' = sessions \cup {EMAIL}
            /\ pc' = "folder"
       ELSE /\ pc' = "exit"
            /\ UNCHANGED <<mega_instance, sessions>>
  /\ UNCHANGED <<files, order, folder, stats, custom_name, dry_run_choice,
                 proceed, final_confirm, deleted, renamed, backup_data, calls,
                 log, backups, summary>>
  /\ UNCHANGED walkVars

\* folder prompt and find_folder(); get_files() raising yields no folder
FindFolder ==
  /\ pc = "folder"
  /\ \E folder_path \in FolderPaths, confirmed \in SUBSET {FolderF, FolderS},
        ok \in BOOLEAN :
       LET found == IF ok THEN find_folder(files, order, folder_path, confirmed)
                    ELSE NoFolder
       IN  /\ folder' = found
           /\ pc' = IF found = NoFolder THEN "exit" ELSE "analyze"
  /\ UNCHANGED <<files, order, sessions, mega_instance, stats, custom_name,
                 dry_run_choice, proceed, final_confirm, deleted, renamed,
                 backup_data, calls, log, backups, summary>>
  /\ UNCHANGED walkVars

\* analyze_folder() and the empty-folder exit
Analyze ==
  /\ pc = "analyze"
  /\ stats' = analyze_folder(files, order, folder)
  /\ pc' = IF stats'.total_files = 0 THEN "exit" ELSE "name"
  /\ UNCHANGED <<files, order, sessions, mega_instance, folder, custom_name,
                 dry_run_choice, proceed, final_confirm, deleted, renamed,
                 backup_data, calls, log, backups, summary>>
  /\ UNCHANGED walkVars

\* custom-name prompt: the stripped text must be non-empty
CollectName ==
  /\ pc = "name"
  /\ \E raw \in RawNames :
       /\ custom_name' = Strip(raw)
       /\ pc' = IF custom_name' = <<>> THEN "exit" ELSE "mode"
  /\ UNCHANGED <<files, order, sessions, mega_instance, folder, stats,
                 dry_run_choice, proceed, final_confirm, deleted, renamed,
                 backup_data, calls, log, backups, summary>>
  /\ UNCHANGED walkVars

\* 'Perform dry run first?'
ChooseMode ==
  /\ pc = "mode"
  /\ \E ans \in Answers :
       /\ dry_run_choice' = Lower(ans)
       /\ pc' = IF dry_run_choice' = YES THEN "dryrun" ELSE "confirm"
  /\ UNCHANGED <<files, order, sessions, mega_instance, folder, stats,
                 custom_name, proceed, final_confirm, deleted, renamed,
                 backup_data, calls, log, backups, summary>>
  /\ UNCHANGED walkVars

\* the files under the resolved folder in the current listing
Collected == get_all_files_recursive(files, order, folder)

\* ids of the collected files: the remote calls of a pass that can fail
BatchIds == {Collected[i].id : i \in 1..Len(Collected)}

\* the dry-run pass: delete_pdfs(dry_run=True) when the analyzer counted a
\* PDF, then rename_files(dry_run=True); a dry run attempts no remote call
\* and no backup write, so none of them can fail
DryRun ==
  /\ pc = "dryrun"
  /\ LET st0 == [files |-> files, order |-> order, calls |-> calls,
                 log |-> log, backups |-> backups]
         d == IF stats.pdf_files > 0 THEN delete_pdfs(st0, folder, TRUE, {})
              ELSE st0
         r == rename_files([files |-> d.files, order |-> d.order,
                            calls |-> d.calls, log |-> d.log,
                            backups |-> backups],
                           folder, custom_name, TRUE, {}, TRUE)
     IN  /\ files' = r.files
         /\ order' = r.order
         /\ calls' = r.calls
         /\ log' = r.log
         /\ backups' = r.backups
         /\ backup_data' = r.backup
         /\ renamed' = r.count
  /\ pc' = "proceed"
  /\ UNCHANGED <<sessions, mega_instance, folder, stats, custom_name,
                 dry_run_choice, proceed, final_confirm, deleted, summary>>
  /\ UNCHANGED walkVars

\* 'Proceed with actual operation?'
ConfirmProceed ==
  /\ pc = "proceed"
  /\ \E ans \in Answers :
       /\ proceed' = Lower(ans)
       /\ pc' = IF proceed' # YES THEN "exit" ELSE "confirm"
  /\ UNCHANGED <<files, order, sessions, mega_instance, folder, stats,
                 custom_name, dry_run_choice, final_confirm, deleted, renamed,
                 backup_data, calls, log, backups, summary>>
  /\ UNCHANGED walkVars

\* variant: the answer to the final confirmation is read but not tested
ConfirmFinal_AnyAnswer ==
  /\ pc = "confirm"
  /\ \E ans \in Answers : final_confirm' = Lower(ans)
  /\ pc' = "delete"
  /\ UNCHANGED <<files, order, sessions, mega_instance, folder, stats,
                 custom_name, dry_run_choice, proceed, deleted, renamed,
                 backup_data, calls, log, backups, summary>>
  /\ UNCHANGED walkVars

\* 'This will modify your Mega files. Continue?'
ConfirmFinal ==
  /\ pc = "confirm"
  /\ \E ans \in Answers :
       /\ final_confirm' = Lower(ans)
       /\ pc' = IF final_confirm' # YES THEN "exit" ELSE "delete"
  /\ UNCHANGED <<files, order, sessions, mega_instance, folder, stats,
                 custom_name, dry_run_choice, proceed, deleted, renamed,
                 backup_data, calls, log, backups, summary>>
  /\ UNCHANGED walkVars

\* live deletion: delete_pdfs(dry_run=False) when the analyzer counted a PDF
LiveDelete ==
  /\ pc = "delete"
  /\ \E fails \in SUBSET BatchIds :
       LET st0 == [files |-> files, order |-> order, calls |-> calls,
                   log |-> log]
       IN  IF stats.pdf_files > 0
           THEN LET d == delete_pdfs(st0, folder, FALSE, fails)
                IN  /\ files' = d.files
                    /\ order' = d.order
                    /\ calls' = d.calls
                    /\ log' = d.log
                    /\ deleted' = d.count
           ELSE UNCHANGED <<files, order, calls, log, deleted>>
  /\ pc' = "rename"
  /\ UNCHANGED <<sessions, mega_instance, folder, stats, custom_name,
                 dry_run_choice, proceed, final_confirm, renamed, backup_data,
                 backups, summary>>
  /\ UNCHANGED walkVars

\* live rename: rename_files(dry_run=False)
LiveRename ==
  /\ pc = "rename"
  /\ \E fails \in SUBSET BatchIds, write_ok \in BOOLEAN :
       LET r == rename_files([files |-> files, order |-> order,
                              calls |-> calls, log |-> log,
                              backups |-> backups],
                             folder, custom_name, FALSE, fails, write_ok)
       IN  /\ files' = r.files
           /\ order' = r.order
           /\ calls' = r.calls
           /\ log' = r.log
           /\ backups' = r.backups
           /\ backup_data' = r.backup
           /\ renamed' = r.count
  /\ pc' = "summary"
  /\ UNCHANGED <<sessions, mega_instance, folder, stats, custom_name,
                 dry_run_choice, proceed, final_confirm, deleted, summary>>
  /\ UNCHANGED walkVars

\* the final summary and the 'Operation complete' log line
Summarize ==
  /\ pc = "summary"
  /\ summary' = [deleted |-> stats.pdf_files, renamed |-> renamed]
  /\ pc' = "done"
  /\ UNCHANGED <<files, order, sessions, mega_instance, folder, stats,
                 custom_name, dry_run_choice, proceed, final_confirm, deleted,
                 renamed, backup_data, calls, log, backups>>
  /\ UNCHANGED walkVars

Next ==
  \/ SelectAccount
  \/ Login
  \/ FindFolder
  \/ Analyze
  \/ CollectName
  \/ ChooseMode
  \/ DryRun
  \/ ConfirmProceed
  \/ ConfirmFinal
  \/ LiveDelete
  \/ LiveRename
  \/ Summarize

Spec == Init /\ [][Next]_vars

(* ------------------- get_all_files_recursive, stepwise ----------------- *)
\* The walk spec runs traverse() one loop iteration at a time over listings
\* that need not be well formed: any node may name any node as its parent.
WalkIds == {FolderF} \cup (1..WalkNodes)
WalkParents == {CloudRoot} \cup WalkIds
WalkOrder == <<FolderF>> \o [i \in 1..WalkNodes |-> i]

WalkListings ==
  {[id \in WalkIds |->
      [p |-> wp[id],
       t |-> IF id = FolderF THEN 1 ELSE wt[id],
       n |-> IF id = FolderF THEN <<DOCS>>
             ELSE IF id = 1 THEN <<A_TXT>> ELSE <<>>]] :
     wp \in [WalkIds -> WalkParents], wt \in [WalkIds -> {0, 1}]}

WalkInit ==
  /\ pc = "walk"
  /\ files \in WalkListings
  /\ order \in {WalkOrder, Reverse(WalkOrder)}
  /\ sessions = {}
  /\ mega_instance = TRUE
  /\ folder = FolderF
  /\ stats = EmptyStats
  /\ custom_name = UNSET
  /\ dry_run_choice = UNSET
  /\ proceed = UNSET
  /\ final_confirm = UNSET
  /\ deleted = UNBOUND
  /\ renamed = UNBOUND
  /\ backup_data = <<>>
  /\ calls = <<>>
  /\ log = <<>>
  /\ backups = <<>>
  /\ summary = [deleted |-> UNBOUND, renamed |-> UNBOUND]
  /\ stack = <<>>
  /\ all_files = <<>>
  /\ wpc = "idle"

Top == stack[Len(stack)]
OnStack == {stack[k].parent : k \in 1..Len(stack)}
\* the current frame with its iterator advanced by one
Advanced == [stack EXCEPT ![Len(stack)] = [@ EXCEPT !.i = @ + 1]]

\* all_files = []; traverse(folder_id)
WalkCall ==
  /\ wpc = "idle"
  /\ stack' = <<[parent |-> folder, i |-> 1]>>
  /\ all_files' = <<>>
  /\ wpc' = "run"
  /\ UNCHANGED <<files, order, folder>>
  /\ UNCHANGED runVars

\* the entry is not a child of parent_id (or is neither file nor folder)
WalkSkip ==
  /\ wpc = "run"
  /\ Top.i <= Len(order)
  /\ LET file_data == files[order[Top.i]]
     IN  file_data.p # Top.parent \/ file_data.t \notin {0, 1}
  /\ stack' = Advanced
  /\ UNCHANGED <<files, order, folder, all_files, wpc>>
  /\ UNCHANGED runVars

\* a child of type file is appended to all_files
WalkCollect ==
  /\ wpc = "run"
  /\ Top.i <= Len(order)
  /\ LET file_id == order[Top.i]
         file_data == files[file_id]
     IN  /\ file_data.p = Top.parent
         /\ file_data.t = 0
         /\ all_files' = Append(all_files, FileRecord(file_id, file_data))
  /\ stack' = Advanced
  /\ UNCHANGED <<files, order, folder, wpc>>
  /\ UNCHANGED runVars

\* variant: a child of type folder is passed over
WalkDescend_NoDescent ==
  /\ wpc = "run"
  /\ Top.i <= Len(order)
  /\ LET file_data == files[order[Top.i]]
     IN  file_data.p = Top.parent /\ file_data.t = 1
  /\ order[Top.i] \notin OnStack
  /\ stack' = Advanced
  /\ UNCHANGED <<files, order, folder, all_files, wpc>>
  /\ UNCHANGED runVars

\* a child of type folder: traverse(file_id) is called
WalkDescend ==
  /\ wpc = "run"
  /\ Top.i <= Len(order)
  /\ LET file_id == order[Top.i]
         file_data == files[file_id]
     IN  /\ file_data.p = Top.parent
         /\ file_data.t = 1
         /\ file_id \notin OnStack
         /\ stack' = Append(Advanced, [parent |-> file_id, i |-> 1])
  /\ UNCHANGED <<files, order, folder, all_files, wpc>>
  /\ UNCHANGED runVars

\* variant: a folder whose traversal is active is not entered again
WalkDiverge_VisitedSet ==
  /\ wpc = "run"
  /\ Top.i <= Len(order)
  /\ LET file_data == files[order[Top.i]]
     IN  file_data.p = Top.parent /\ file_data.t = 1
  /\ order[Top.i] \in OnStack
  /\ stack' = Advanced
  /\ UNCHANGED <<files, order, folder, all_files, wpc>>
  /\ UNCHANGED runVars

\* traverse(file_id) is called while traverse(file_id) is still active: the
\* same calls repeat at every depth, the recursion has no end
WalkDiverge ==
  /\ wpc = "run"
  /\ Top.i <= Len(order)
  /\ LET file_id == order[Top.i]
         file_data == files[file_id]
     IN  /\ file_data.p = Top.parent
         /\ file_data.t = 1
         /\ file_id \in OnStack
  /\ wpc' = "diverged"
  /\ UNCHANGED <<files, order, folder, all_files, stack>>
  /\ UNCHANGED runVars

\* the loop of a frame is exhausted: the call returns
WalkReturn ==
  /\ wpc = "run"
  /\ Top.i > Len(order)
  /\ stack' = SubSeq(stack, 1, Len(stack) - 1)
  /\ wpc' = IF Len(stack) = 1 THEN "done" ELSE "run"
  /\ UNCHANGED <<files, order, folder, all_files>>
  /\ UNCHANGED runVars

WalkNext ==
  \/ WalkCall
  \/ WalkSkip
  \/ WalkCollect
  \/ WalkDescend
  \/ WalkDiverge
  \/ WalkReturn

SpecWalk == WalkInit /\ [][WalkNext]_vars /\ WF_vars(WalkNext)

(* ======================= properties of run() =========================== *)
Events(ev) == {log[k].id : k \in {j \in 1..Len(log) : log[j].ev = ev}}
CallsOf(op) == SelectSeq(calls, LAMBDA c : c.op = op)
Succeeded(op) == Cardinality({k \in 1..Len(calls) : calls[k].op = op /\ calls[k].ok})

\* C1: the dry-run pass of run() (delete_pdfs and rename_files with
\* dry_run=True) issues no remote destroy or rename call and writes no
\* backup file: the remote listing and the backup files are the same after
\* the pass as before it.
C1_DryRunChangesNothing ==
  [][pc = "dryrun" =>
       /\ calls' = calls
       /\ files' = files
       /\ order' = order
       /\ backups' = backups]_vars

\* a dry-run pass that planned a deletion and a rename has completed
C1_Witness ==
  /\ pc = "proceed"
  /\ Events("would_delete") # {}
  /\ Events("would_rename") # {}
  /\ backup_data # <<>>

GatesPassed ==
  /\ mega_instance
  /\ folder # NoFolder
  /\ stats.total_files > 0
  /\ custom_name # <<>>
  /\ final_confirm = YES
  /\ (dry_run_choice = YES => proceed = YES)

GateFailedStep ==
  \/ pc = "login" /\ ~mega_instance'
  \/ pc = "folder" /\ folder' = NoFolder
  \/ pc = "analyze" /\ stats'.total_files = 0
  \/ pc = "name" /\ custom_name' = <<>>
  \/ pc = "proceed" /\ proceed' # YES
  \/ pc = "confirm" /\ final_confirm' # YES

C3_PdfNeverRenamed ==
  /\ \A i \in 1..Len(backup_data) :
       ~EndsWith(Lower(backup_data[i].original_name), DOT_PDF)
  /\ Events("deleted") \cap Events("renamed") = {}
  /\ Events("would_delete") \cap Events("would_rename") = {}
  /\ Events("error_deleting") \cap
       (Events("renamed") \cup Events("error_renaming")) = {}
  /\ (pc \in {"summary", "done"} /\ deleted # UNBOUND
        => deleted + renamed <= stats.total_files)

\* a PDF whose remote delete failed was still listed during a live rename
\* pass that planned other files
C3_Witness ==
  /\ pc = "summary"
  /\ Events("error_deleting") # {}
  /\ backup_data # <<>>
  /\ \E i \in 1..Len(Collected) : IsPdfName(Collected[i])

\* the index i written as three digits (i < 1000)
ThreeDigits(i) == <<Digit(i \div 100), Digit((i \div 10) % 10), Digit(i % 10)>>

\* the extension of a name: its text from the last dot on, when that dot is
\* neither the first nor the last character
ExtensionOf(name) ==
  LET dots == {k \in 1..Len(name) : name[k] = "."}
  IN  IF dots = {} THEN <<>>
      ELSE LET last == CHOOSE k \in dots : \A j \in dots : j <= k
           IN  IF last = 1 \/ last = Len(name) THEN <<>>
               ELSE SubSeq(name, last, Len(name))

PositionIn(seq, id) == CHOOSE k \in 1..Len(seq) : seq[k].id = id

TheExample ==
  /\ custom_name = DOC
  /\ Len(Collected) = 3
  /\ {Collected[i].name : i \in 1..3} = {A_TXT, B_TXT, X_PDF}

\* C4: the i-th entry of the rename plan has new name
\* <custom_name>_<i as three digits><original extension, verbatim>; the
\* entries are in ascending order of original name, ties in traversal order
\* (stable sort); new names are pairwise distinct; files b.txt, a.txt, x.pdf
\* with custom name doc give a.txt->doc_001.txt, b.txt->doc_002.txt.
C4_RenamePlan ==
  /\ \A i \in 1..Len(backup_data) :
       /\ backup_data[i].new_name =
            custom_name \o <<"_">> \o ThreeDigits(i)
              \o ExtensionOf(backup_data[i].original_name)
       /\ i < Len(backup_data) =>
            ~StrLess(backup_data[i + 1].original_name, backup_data[i].original_name)
  /\ \A i, j \in 1..Len(backup_data) :
       i # j => backup_data[i].new_name # backup_data[j].new_name
  /\ (pc = "proceed" =>
        /\ Len(backup_data) = Len(FilesToRename(Collected))
        /\ \A i, j \in 1..Len(backup_data) :
             (i < j /\ backup_data[i].original_name = backup_data[j].original_name)
               => PositionIn(Collected, backup_data[i].file_id)
                    < PositionIn(Collected, backup_data[j].file_id))
  /\ (pc = "proceed" /\ TheExample =>
        [i \in 1..Len(backup_data) |->
           <<backup_data[i].original_name, backup_data[i].new_name>>]
        = << <<A_TXT, DOC \o <<"_", "0", "0", "1", ".", "t", "x", "t">> >>,
             <<B_TXT, DOC \o <<"_", "0", "0", "2", ".", "t", "x", "t">> >> >>)

\* the plan for b.txt, a.txt, x.pdf (b.txt listed before a.txt) and doc
C4_Witness ==
  /\ pc = "proceed"
  /\ TheExample
  /\ Len(backup_data) = 2
  /\ PositionIn(Collected, backup_data[2].file_id)
       < PositionIn(Collected, backup_data[1].file_id)

\* the calls issued by a step, and the count it returns, for a batch
BatchHandled(op, batch, count) ==
  LET n == Len(batch)
      base == Len(calls)
  IN  /\ Len(calls') = base + n
      /\ \A i \in 1..n :
           /\ calls'[base + i].op = op
           /\ calls'[base + i].id = batch[i].id
      /\ count = n - Cardinality({i \in 1..n : ~calls'[base + i].ok})

\* C5: a live delete (rename) pass issues the remote call for every item of
\* its batch, in order, whatever calls failed before, and returns the batch
\* size minus the number of failed calls.
C5_ContinueOnError ==
  [][/\ (pc = "delete" /\ stats.pdf_files > 0
           => BatchHandled("destroy", PdfFiles(Collected), deleted'))
     /\ (pc = "rename"
           => BatchHandled("rename", SortByName(FilesToRename(Collected)),
                           renamed'))]_vars

\* a failed remote call was followed by a call for a later item of the batch
C5_Witness ==
  \E i, j \in 1..Len(calls) :
    /\ i < j
    /\ calls[i].op = calls[j].op
    /\ ~calls[i].ok
    /\ calls[j].ok

\* C7: a live rename pass that persists a backup persists the plan: one
\* entry {file_id, original_name, new_name} per remote rename call of the
\* pass, in call order, for failed calls too, covering exactly the files to
\* rename; a pass without a successful rename persists nothing.
C7_BackupHoldsWholePlan ==
  [][pc = "rename" =>
       LET issued == SubSeq(calls', Len(calls) + 1, Len(calls'))
           todo == FilesToRename(Collected)
       IN  /\ (renamed' = 0 => backups' = backups)
           /\ (backups' # backups =>
                 /\ renamed' > 0
                 /\ Len(backups') = Len(backups) + 1
                 /\ SubSeq(backups', 1, Len(backups)) = backups
                 /\ LET b == backups'[Len(backups')]
                    IN  /\ b.custom_name = custom_name
                        /\ Len(b.files) = Len(issued)
                        /\ Len(b.files) = Len(todo)
                        /\ {b.files[i].file_id : i \in 1..Len(b.files)}
                             = {todo[i].id : i \in 1..Len(todo)}
                        /\ \A i \in 1..Len(b.files) :
                             /\ b.files[i].file_id = issued[i].id
                             /\ b.files[i].new_name = issued[i].name
                             /\ b.files[i].original_name
                                  = NodeName(files[b.files[i].file_id])
                             /\ i < Len(b.files) =>
                                  ~StrLess(b.files[i + 1].original_name,
                                           b.files[i].original_name))]_vars

\* a backup was written by a pass in which a remote rename failed
C7_Witness ==
  /\ pc = "summary"
  /\ backups # <<>>
  /\ \E k \in 1..Len(calls) : calls[k].op = "rename" /\ ~calls[k].ok

\* C9: right after the analysis, stats['pdf_files'] equals the number of
\* files the deletion filter selects and stats['other_files'] the number of
\* files rename_files plans; so once the deletion step of a live run is
\* over, a file matching the deletion filter is listed only if a remote
\* delete was issued.
C9_AnalyzerMatchesFilters ==
  /\ (pc = "name" =>
        /\ stats.pdf_files = Len(PdfFiles(Collected))
        /\ stats.other_files = Len(FilesToRename(Collected)))
  /\ (pc = "rename" /\ PdfFiles(Collected) # <<>> => CallsOf("destroy") # <<>>)

\* C10: the 'Files deleted' and 'Files renamed' figures of the final summary
\* equal the numbers of successful remote delete and rename calls.
C10_SummaryFigures ==
  pc = "done" =>
    /\ summary.deleted = Succeeded("destroy")
    /\ summary.renamed = Succeeded("rename")

(* =============== properties of get_all_files_recursive ================= *)
\* the node k parent links above id; CloudRoot once the chain has left the
\* listing
RECURSIVE Up(_, _)
Up(id, k) ==
  IF k = 0 THEN id
  ELSE LET below == Up(id, k - 1)
       IN  IF below \in DOMAIN files THEN files[below].p ELSE CloudRoot

NodeCount == Cardinality(DOMAIN files)
FileNodes == {id \in DOMAIN files : files[id].t = 0}
IsFolder(id) == id \in DOMAIN files /\ files[id].t = 1

\* the parent chain of id reaches the root folder
ChainReachesRoot(id) == \E k \in 1..NodeCount : Up(id, k) = folder

\* ... and every node strictly between id and the root is a folder
ChainOfFoldersReachesRoot(id) ==
  \E k \in 1..NodeCount :
    /\ Up(id, k) = folder
    /\ \A j \in 1..(k - 1) : IsFolder(Up(id, j))

ReturnedIds == {all_files[i].id : i \in 1..Len(all_files)}
ReturnedOnce == \A i, j \in 1..Len(all_files) :
                  all_files[i].id = all_files[j].id => i = j

\* C6 as stated: the walk returns only file nodes, each once, and exactly
\* the file nodes whose parent chain reaches the root, whatever the
\* iteration order of the listing.
C6_ReturnsFilesUnderRoot ==
  wpc = "done" =>
    /\ ReturnedIds \subseteq FileNodes
    /\ ReturnedOnce
    /\ ReturnedIds = {id \in FileNodes : ChainReachesRoot(id)}

\* C6 amended: the walk returns only file nodes, each once, and exactly the
\* file nodes whose parent chain reaches the root through folders only,
\* whatever the iteration order of the listing.
C6_ReturnsFilesUnderRootFolders ==
  wpc = "done" =>
    /\ ReturnedIds \subseteq FileNodes
    /\ ReturnedOnce
    /\ ReturnedIds = {id \in FileNodes : ChainOfFoldersReachesRoot(id)}

\* the walk returned a file that lies in a sub-folder of the root
C6_Witness ==
  /\ wpc = "done"
  /\ \E i \in 1..Len(all_files) : files[all_files[i].id].p # folder

NoCycleThroughRoot == \A k \in 1..NodeCount : Up(folder, k) # folder
RootOnFolderCycle ==
  \E k \in 1..NodeCount :
    /\ Up(folder, k) = folder
    /\ \A j \in 1..(k - 1) : IsFolder(Up(folder, j))

\* C8: the walk returns when no parent-link cycle runs through the root
\* folder, and never returns when the root folder lies on a parent-link
\* cycle of folders (a root that is its own parent included).
C8_TerminatesUnlessRootOnCycle ==
  /\ (NoCycleThroughRoot => <>(wpc = "done"))
  /\ (RootOnFolderCycle => [](wpc # "done"))

\* the walk re-entered the root folder through a cycle of two folders
C8_Witness ==
  /\ wpc = "diverged"
  /\ RootOnFolderCycle
  /\ files[folder].p # folder
  /\ Len(stack) >= 2
====

